---------------------------- MODULE Spec2Model ----------------------------
(***************************************************************************)
(* Voice-activity detection of VoiceConnectionHandler                      *)
(* (src/api/discord/voiceConnection.ts).                                   *)
(*                                                                         *)
(* One handler object owns isSpeaking, silenceTimer and                    *)
(* consecutiveNoiseFrames.  Every subscribed audio stream feeds its chunks *)
(* through calculateAudioLevel into processAudioLevel of that one object.  *)
(* The platform timer facility (setTimeout / clearTimeout) is modelled as  *)
(* the function `pending` from outstanding timeout ids to the time still   *)
(* to run; time advances in steps of TickMs.                               *)
(*                                                                         *)
(* Variables below the line "history" record what the handler has done     *)
(* (the events it emitted, the frames it processed); no action reads them  *)
(* to decide what the handler does.                                        *)
(***************************************************************************)
EXTENDS Integers, Sequences, FiniteSets, TLC

VARIABLES
    isSpeaking,              \* this.isSpeaking
    silenceTimer,            \* this.silenceTimer: NULL or a timeout id
    consecutiveNoiseFrames,  \* this.consecutiveNoiseFrames
    currentConnection,       \* this.currentConnection
    streams,                 \* users whose AudioReceiveStream is subscribed and open
    pending,                 \* timer facility: outstanding timeout id -> ms left
    \* ---- history ----
    emitted,                 \* the last MaxEvents events passed to emit()
    firstEvent,              \* the first event ever passed to emit()
    unmatched,               \* #realSpeechStart - #realSpeechEnd emitted so far
    run,                     \* classes of the first RunCap frames processed since
                             \* the handler was last Idle with a zero frame count
    runStarts,               \* realSpeechStart events emitted during `run`
    quiet,                   \* silence bookkeeping since the last realSpeechStart
    cancelled,               \* the last processed frame cleared a pending timeout
    lastClass,               \* class of the level of the last processed frame
    measured,                \* two frames and the levels measured for them
    noiseRun,                \* length of the current unbroken run of frames above
                             \* the noise floor (counted up to MaxNoiseFrames)
    sinceReset,              \* frames processed since the last frame not above the
                             \* noise floor or the last realSpeechEnd
    countdown                \* the silence countdown in flight, or the one that
                             \* fired last: what happened while it ran

vars == <<isSpeaking, silenceTimer, consecutiveNoiseFrames, currentConnection,
          streams, pending, emitted, firstEvent, unmatched, run, runStarts,
          quiet, cancelled, lastClass, measured, noiseRun, sinceReset,
          countdown>>

frameVars == <<noiseRun, sinceReset, countdown>>

emitVars == <<emitted, firstEvent, unmatched>>

-----------------------------------------------------------------------------
(* Program constants *)

SILENCE_THRESHOLD == 500
NOISE_THRESHOLD == -50
SPEECH_THRESHOLD == -35
REQUIRED_NOISE_FRAMES == 3
NULL == 0

(* Bounds of the model *)

NumSources == 2        \* users that may transmit on the connection
MaxSamples == 1        \* longest chunk, in 16-bit samples
MaxNoiseFrames == 5    \* cap of consecutiveNoiseFrames
MaxTimers == 2         \* timeout ids the timer facility hands out
MaxEvents == 3         \* length of the window of emitted events
RunCap == 4            \* frames recorded in `run`
TickMs == 250          \* time that passes in one Tick
MeasureLen == 2        \* longest frame handed to calculateAudioLevel alone

Sources == 1..NumSources
TimerIds == 1..MaxTimers
SampleValues == {-1000, 0, 200, 700}
AgeCap == SILENCE_THRESHOLD + TickMs

Chunks == UNION {[1..n -> SampleValues] : n \in 0..MaxSamples}

Min(a, b) == IF a < b THEN a ELSE b
Max(a, b) == IF a > b THEN a ELSE b

-----------------------------------------------------------------------------
(* calculateAudioLevel *)

\* the samples are added up by magnitude instead of being squared
RECURSIVE SumMagnitudes(_)
SumMagnitudes(samples) ==
    IF Len(samples) = 0 THEN 0
    ELSE (IF samples[Len(samples)] < 0 THEN 0 - samples[Len(samples)]
          ELSE samples[Len(samples)])
         + SumMagnitudes(SubSeq(samples, 1, Len(samples) - 1))

RECURSIVE SumSquares(_)
SumSquares(samples) ==
    IF Len(samples) = 0 THEN 0
    ELSE samples[Len(samples)] * samples[Len(samples)]
         + SumSquares(SubSeq(samples, 1, Len(samples) - 1))

\* The level 20 * log10(sqrt(sum / n) / 32768) is kept as the pair (sum, n)
\* it is computed from.  n = 0 gives 0/0 = NaN; sum = 0 gives -Infinity.
calculateAudioLevel(chunk) ==
    [sum |-> SumSquares(chunk), n |-> Len(chunk)]

IsNaN(level) == level.n = 0

\* levelA >= levelB on the two doubles: false when either is NaN, else the
\* comparison of the mean squares, of which the level is an increasing
\* function.
LevelAtLeast(levelA, levelB) ==
    /\ ~IsNaN(levelA)
    /\ ~IsNaN(levelB)
    /\ levelA.sum * levelB.n >= levelB.sum * levelA.n

\* 1000 * 32768^2 * 10^(db/10): the mean square, in thousandths, at which
\* 20 * log10(sqrt(ms) / 32768) equals db, rounded up (the exact value is
\* not an integer, so no mean square of integer samples equals it).
MeanSquareMilli(db) ==
    CASE db = -50 -> 10737419
      [] db = -35 -> 339546979

\* level > db, as the comparison of doubles evaluates it: false for NaN,
\* false for -Infinity, else sum / n > 32768^2 * 10^(db/10).
\* Exact for n <= 6 (the floor of MeanSquareMilli(db) * n / 1000 is that of
\* the exact product).
GreaterThan(level, db) ==
    /\ ~IsNaN(level)
    /\ level.sum > (MeanSquareMilli(db) * level.n) \div 1000

Class(level) ==
    IF IsNaN(level) THEN "nan"
    ELSE IF GreaterThan(level, SPEECH_THRESHOLD) THEN "loud"
    ELSE IF GreaterThan(level, NOISE_THRESHOLD) THEN "mid"
    ELSE "low"

-----------------------------------------------------------------------------
(* Timer facility *)

FreeTimerIds == TimerIds \ DOMAIN pending

setTimeout(id, delay) ==
    [i \in (DOMAIN pending) \cup {id} |-> IF i = id THEN delay ELSE pending[i]]

\* clearTimeout forgotten: the handle is dropped, the timeout stays scheduled
clearTimeoutForgotten(id) == pending

clearTimeout(id) ==
    [i \in (DOMAIN pending) \ {id} |-> pending[i]]

-----------------------------------------------------------------------------
(* emit, handleSpeechStart, handleSpeechEnd *)

Window(s) == IF Len(s) > MaxEvents THEN SubSeq(s, 2, Len(s)) ELSE s

emit(event) ==
    /\ emitted' = Window(Append(emitted, event))
    /\ firstEvent' = IF firstEvent = "none" THEN event ELSE firstEvent
    /\ unmatched' = IF event = "realSpeechStart" THEN unmatched + 1
                    ELSE unmatched - 1

\* the event is not emitted
handleSpeechStartSilent ==
    /\ isSpeaking' = TRUE
    /\ UNCHANGED emitVars

handleSpeechStart ==
    /\ isSpeaking' = TRUE
    /\ emit("realSpeechStart")

\* the timer handle is not cleared
handleSpeechEndKeepsHandle ==
    /\ isSpeaking' = FALSE
    /\ consecutiveNoiseFrames' = 0
    /\ UNCHANGED silenceTimer
    /\ emit("realSpeechEnd")

\* the frame count is not reset
handleSpeechEndKeepsCount ==
    /\ isSpeaking' = FALSE
    /\ UNCHANGED consecutiveNoiseFrames
    /\ silenceTimer' = NULL
    /\ emit("realSpeechEnd")

handleSpeechEnd ==
    /\ isSpeaking' = FALSE
    /\ consecutiveNoiseFrames' = 0
    /\ silenceTimer' = NULL
    /\ emit("realSpeechEnd")

-----------------------------------------------------------------------------
(* processAudioLevel *)

AboveNoise(audioLevel) == GreaterThan(audioLevel, NOISE_THRESHOLD)

\* one frame too many is required
SpeechConfirmedLate(audioLevel, frames) ==
    /\ GreaterThan(audioLevel, SPEECH_THRESHOLD)
    /\ frames > REQUIRED_NOISE_FRAMES

\* the frame count is not consulted
SpeechConfirmedAtOnce(audioLevel, frames) ==
    GreaterThan(audioLevel, SPEECH_THRESHOLD)

SpeechConfirmed(audioLevel, frames) ==
    /\ GreaterThan(audioLevel, SPEECH_THRESHOLD)
    /\ frames >= REQUIRED_NOISE_FRAMES

\* the isSpeaking test is missing
NeedsSpeechStartAlways == TRUE

NeedsSpeechStart == ~isSpeaking

\* the pending-timer test is missing
NeedsSilenceTimerAgain == isSpeaking

NeedsSilenceTimer == isSpeaking /\ silenceTimer = NULL

\* no debounce: a frame at or below the noise floor ends the speech at once
processAudioLevelNoDebounce(audioLevel) ==
    IF AboveNoise(audioLevel)
    THEN /\ consecutiveNoiseFrames' = consecutiveNoiseFrames + 1
         /\ IF SpeechConfirmed(audioLevel, consecutiveNoiseFrames + 1)
            THEN /\ IF NeedsSpeechStart
                    THEN handleSpeechStart
                    ELSE UNCHANGED <<isSpeaking, emitVars>>
                 /\ IF silenceTimer # NULL
                    THEN /\ pending' = clearTimeout(silenceTimer)
                         /\ silenceTimer' = NULL
                    ELSE UNCHANGED <<silenceTimer, pending>>
            ELSE UNCHANGED <<isSpeaking, silenceTimer, pending, emitVars>>
    ELSE IF isSpeaking
         THEN /\ handleSpeechEnd
              /\ pending' = <<>>
         ELSE /\ consecutiveNoiseFrames' = 0
              /\ UNCHANGED <<isSpeaking, silenceTimer, pending, emitVars>>

processAudioLevel(audioLevel) ==
    IF AboveNoise(audioLevel)
    THEN /\ consecutiveNoiseFrames' = consecutiveNoiseFrames + 1
         /\ IF SpeechConfirmed(audioLevel, consecutiveNoiseFrames + 1)
            THEN /\ IF NeedsSpeechStart
                    THEN handleSpeechStart
                    ELSE UNCHANGED <<isSpeaking, emitVars>>
                 /\ IF silenceTimer # NULL
                    THEN /\ pending' = clearTimeout(silenceTimer)
                         /\ silenceTimer' = NULL
                    ELSE UNCHANGED <<silenceTimer, pending>>
            ELSE UNCHANGED <<isSpeaking, silenceTimer, pending, emitVars>>
    ELSE /\ consecutiveNoiseFrames' = 0
         /\ IF NeedsSilenceTimer
            THEN \E id \in FreeTimerIds :
                    /\ (\A j \in FreeTimerIds : id <= j)
                    /\ silenceTimer' = id
                    /\ pending' = setTimeout(id, SILENCE_THRESHOLD)
            ELSE UNCHANGED <<silenceTimer, pending>>
         /\ UNCHANGED <<isSpeaking, emitVars>>

isCurrentlySpeaking == isSpeaking

-----------------------------------------------------------------------------
(* History bookkeeping of a processed frame *)

\* age: time since the countdown was scheduled; noiseAge: time since a
\* frame above the noise floor was processed while it ran; both are counted
\* up to SILENCE_THRESHOLD, which noiseAge also has when there was no such
\* frame.  confirmed: a frame that met the confirmation condition was
\* processed while it ran.
NoCountdown ==
    [age |-> 0, noiseAge |-> SILENCE_THRESHOLD, confirmed |-> FALSE]

RecordFrame(class) ==
    /\ run' = IF ~isSpeaking' /\ consecutiveNoiseFrames' = 0 THEN <<>>
              ELSE IF Len(run) < RunCap THEN Append(run, class)
              ELSE run
    /\ runStarts' = IF ~isSpeaking' /\ consecutiveNoiseFrames' = 0 THEN 0
                    ELSE IF unmatched' > unmatched THEN runStarts + 1
                    ELSE runStarts
    /\ quiet' = IF unmatched' > unmatched THEN [s |-> "fresh", age |-> 0]
                ELSE IF class = "low"
                THEN (IF quiet.s = "fresh" THEN [s |-> "low", age |-> 0]
                      ELSE quiet)
                ELSE [s |-> "na", age |-> 0]
    /\ cancelled' = (silenceTimer # NULL /\ silenceTimer' = NULL)
    /\ lastClass' = class
    /\ noiseRun' = IF class \in {"mid", "loud"}
                   THEN Min(MaxNoiseFrames, noiseRun + 1)
                   ELSE 0
    /\ sinceReset' = IF class \in {"mid", "loud"} THEN sinceReset + 1 ELSE 0
    /\ countdown' =
         IF DOMAIN pending' = {} \/ DOMAIN pending' \ DOMAIN pending # {}
         THEN NoCountdown
         ELSE [countdown EXCEPT
                 !.noiseAge = IF class \in {"mid", "loud"} THEN 0 ELSE @,
                 !.confirmed = @ \/ (class = "loud" /\ consecutiveNoiseFrames'
                                                    >= REQUIRED_NOISE_FRAMES)]

-----------------------------------------------------------------------------
(* Actions *)

NotMeasured ==
    [a |-> <<>>, b |-> <<>>, levelA |-> calculateAudioLevel(<<>>),
     levelB |-> calculateAudioLevel(<<>>), done |-> FALSE]

Init ==
    /\ isSpeaking = FALSE
    /\ silenceTimer = NULL
    /\ consecutiveNoiseFrames = 0
    /\ currentConnection = "null"
    /\ streams = {}
    /\ pending = <<>>
    /\ emitted = <<>>
    /\ firstEvent = "none"
    /\ unmatched = 0
    /\ run = <<>>
    /\ runStarts = 0
    /\ quiet = [s |-> "na", age |-> 0]
    /\ cancelled = FALSE
    /\ lastClass = "none"
    /\ measured = NotMeasured
    /\ noiseRun = 0
    /\ sinceReset = 0
    /\ countdown = NoCountdown

\* connect(): the user is in a voice channel, no connection exists for the
\* guild, and the new connection becomes Ready.
connect ==
    /\ currentConnection = "null"
    /\ currentConnection' = "connection"
    /\ UNCHANGED <<isSpeaking, silenceTimer, consecutiveNoiseFrames, streams,
                   pending, emitted, firstEvent, unmatched, run, runStarts,
                   quiet, cancelled, lastClass, measured, frameVars>>

\* receiver.speaking 'start': subscribe to the user's audio stream and attach
\* the 'data' and 'end' listeners.
SpeakingStart(userId) ==
    /\ currentConnection # "null"
    /\ userId \notin streams
    /\ streams' = streams \cup {userId}
    /\ UNCHANGED <<isSpeaking, silenceTimer, consecutiveNoiseFrames,
                   currentConnection, pending, emitted, firstEvent, unmatched,
                   run, runStarts, quiet, cancelled, lastClass, measured,
                   frameVars>>

\* audioStream 'data'
Data(userId, chunk) ==
    /\ userId \in streams
    /\ LET audioLevel == calculateAudioLevel(chunk) IN
         /\ AboveNoise(audioLevel) => consecutiveNoiseFrames < MaxNoiseFrames
         /\ processAudioLevel(audioLevel)
         /\ RecordFrame(Class(audioLevel))
    /\ UNCHANGED <<currentConnection, streams, measured>>

\* audioStream 'end': the listener only logs; the stream delivers no more.
StreamEnd(userId) ==
    /\ userId \in streams
    /\ streams' = streams \ {userId}
    /\ UNCHANGED <<isSpeaking, silenceTimer, consecutiveNoiseFrames,
                   currentConnection, pending, emitted, firstEvent, unmatched,
                   run, runStarts, quiet, cancelled, lastClass, measured,
                   frameVars>>

\* connection.destroy() followed by this.currentConnection = null; the
\* destroyed connection delivers no more audio.
Destroy ==
    /\ currentConnection' = "null"
    /\ streams' = {}
    /\ UNCHANGED <<isSpeaking, silenceTimer, consecutiveNoiseFrames, pending,
                   emitted, firstEvent, unmatched, run, runStarts, quiet,
                   cancelled, lastClass, measured, frameVars>>

\* disconnect()
disconnect ==
    /\ currentConnection # "null"
    /\ Destroy

\* VoiceConnectionStatus.Disconnected and the connection does not come back
\* within 5 s.
Disconnected ==
    /\ currentConnection # "null"
    /\ streams # {}
    /\ Destroy

\* A timeout scheduled by processAudioLevel expires: its callback runs
\* handleSpeechEnd.
TimerFire(id) ==
    /\ id \in DOMAIN pending
    /\ pending[id] = 0
    /\ pending' = clearTimeout(id)
    /\ handleSpeechEnd
    /\ run' = <<>>
    /\ runStarts' = 0
    /\ quiet' = IF quiet.s = "low" THEN [s |-> "ended", age |-> quiet.age]
                ELSE [s |-> "na", age |-> 0]
    /\ cancelled' = FALSE
    /\ sinceReset' = 0
    /\ UNCHANGED <<currentConnection, streams, lastClass, measured, noiseRun,
                   countdown>>

\* TickMs of time pass.
Tick ==
    /\ pending' = [i \in DOMAIN pending |-> Max(0, pending[i] - TickMs)]
    /\ quiet' = IF quiet.s = "low"
                THEN [quiet EXCEPT !.age = Min(AgeCap, quiet.age + TickMs)]
                ELSE quiet
    /\ countdown' =
         IF DOMAIN pending = {} THEN countdown
         ELSE [countdown EXCEPT
                 !.age = Min(SILENCE_THRESHOLD, countdown.age + TickMs),
                 !.noiseAge = Min(SILENCE_THRESHOLD,
                                  countdown.noiseAge + TickMs)]
    /\ UNCHANGED <<isSpeaking, silenceTimer, consecutiveNoiseFrames,
                   currentConnection, streams, emitted, firstEvent, unmatched,
                   run, runStarts, cancelled, lastClass, measured, noiseRun,
                   sinceReset>>

Next ==
    \/ connect
    \/ \E userId \in Sources : SpeakingStart(userId)
    \/ \E userId \in Sources, chunk \in Chunks : Data(userId, chunk)
    \/ \E userId \in Sources : StreamEnd(userId)
    \/ disconnect
    \/ Disconnected
    \/ \E id \in TimerIds : TimerFire(id)
    \/ Tick

Spec == Init /\ [][Next]_vars

\* Timers expire and time passes; nothing obliges a source to keep sending.
FairSpec ==
    /\ Spec
    /\ WF_vars(Tick)
    /\ \A id \in TimerIds : WF_vars(TimerFire(id))

-----------------------------------------------------------------------------
(* calculateAudioLevel on its own: two frames are given, their levels are  *)
(* measured.                                                               *)

Frames == UNION {[1..n -> SampleValues] : n \in 0..MeasureLen}

InitLevel ==
    /\ isSpeaking = FALSE
    /\ silenceTimer = NULL
    /\ consecutiveNoiseFrames = 0
    /\ currentConnection = "null"
    /\ streams = {}
    /\ pending = <<>>
    /\ emitted = <<>>
    /\ firstEvent = "none"
    /\ unmatched = 0
    /\ run = <<>>
    /\ runStarts = 0
    /\ quiet = [s |-> "na", age |-> 0]
    /\ cancelled = FALSE
    /\ lastClass = "none"
    /\ noiseRun = 0
    /\ sinceReset = 0
    /\ countdown = NoCountdown
    /\ measured \in {[NotMeasured EXCEPT !.a = frameA, !.b = frameB] :
                        frameA \in Frames, frameB \in Frames}

Measure ==
    /\ ~measured.done
    /\ measured' = [measured EXCEPT
                        !.levelA = calculateAudioLevel(measured.a),
                        !.levelB = calculateAudioLevel(measured.b),
                        !.done = TRUE]
    /\ UNCHANGED <<isSpeaking, silenceTimer, consecutiveNoiseFrames,
                   currentConnection, streams, pending, emitted, firstEvent,
                   unmatched, run, runStarts, quiet, cancelled, lastClass,
                   frameVars>>

NextLevel == Measure

SpecLevel == InitLevel /\ [][NextLevel]_vars

TypeOK ==
    /\ isSpeaking \in BOOLEAN
    /\ silenceTimer \in TimerIds \cup {NULL}
    /\ consecutiveNoiseFrames \in 0..MaxNoiseFrames
    /\ currentConnection \in {"null", "connection"}
    /\ streams \subseteq Sources
    /\ DOMAIN pending \subseteq TimerIds
    /\ \A i \in DOMAIN pending : pending[i] \in 0..SILENCE_THRESHOLD

-----------------------------------------------------------------------------
(* Two sources with fixed roles: source 1 delivers only frames above the   *)
(* speech threshold, every other source only frames at or below the noise  *)
(* floor.                                                                  *)

SourceA == CHOOSE u \in Sources : \A v \in Sources : u <= v

RoleChunks(userId) ==
    {chunk \in Chunks :
        Class(calculateAudioLevel(chunk)) =
            (IF userId = SourceA THEN "loud" ELSE "low")}

NextIndep ==
    \/ connect
    \/ \E userId \in Sources : SpeakingStart(userId)
    \/ \E userId \in Sources :
          \E chunk \in RoleChunks(userId) : Data(userId, chunk)
    \/ \E userId \in Sources : StreamEnd(userId)
    \/ disconnect
    \/ Disconnected
    \/ \E id \in TimerIds : TimerFire(id)
    \/ Tick

SpecIndep == Init /\ [][NextIndep]_vars

-----------------------------------------------------------------------------
(* Properties *)

\* C1: the emitted events alternate realSpeechStart, realSpeechEnd,
\* realSpeechStart, ..., and the first one is realSpeechStart: no two
\* consecutive events are the same.
C1_EventsAlternate ==
    /\ firstEvent \in {"none", "realSpeechStart"}
    /\ (firstEvent = "none") <=> (emitted = <<>>)
    /\ \A i \in 1..(Len(emitted) - 1) : emitted[i] # emitted[i + 1]

C1_Witness ==
    emitted = <<"realSpeechStart", "realSpeechEnd", "realSpeechStart">>

\* C2: every realSpeechStart is eventually followed by its realSpeechEnd,
\* also when the frames stop arriving while isSpeaking is true: once a
\* realSpeechStart is unmatched and every stream has ended, the
\* realSpeechEnd is eventually emitted (unless a stream is opened again and
\* the utterance goes on).
C2_EveryStartEnds ==
    (unmatched = 1 /\ streams = {}) ~> (unmatched = 0 \/ streams # {})

\* C3: with source A only loud and the other sources only silent, a frame
\* of a silent source changes none of consecutiveNoiseFrames, isSpeaking and
\* silenceTimer, which are A's classification.
C3_SourcesIndependent ==
    [][(\E userId \in Sources \ {SourceA}, chunk \in Chunks :
            Data(userId, chunk))
       => UNCHANGED <<consecutiveNoiseFrames, isSpeaking, silenceTimer>>]_vars

\* C4: once every source is torn down (its stream ended or the connection
\* destroyed) no event is emitted any more, also when a silence timer was
\* pending at teardown.
C4_NoEventAfterTeardown ==
    [][streams = {} => unmatched' = unmatched]_vars

\* C5 as claimed: from Idle with a zero frame count, two frames between the
\* thresholds and then one frame above the speech threshold emit no
\* realSpeechStart and leave isSpeaking false.
C5_NoStartAfterTwoMid ==
    run = <<"mid", "mid", "loud">> => (runStarts = 0 /\ ~isSpeaking)

\* C5 as amended: the two frames between the thresholds emit nothing, the
\* frame above the speech threshold that follows them is the third frame
\* above the noise floor and emits exactly one realSpeechStart, leaving
\* isSpeaking true.
C5_StartOnThirdFrame ==
    /\ run \in {<<"mid">>, <<"mid", "mid">>} => (runStarts = 0 /\ ~isSpeaking)
    /\ run = <<"mid", "mid", "loud">> => (runStarts = 1 /\ isSpeaking)

C5_Witness ==
    run = <<"mid", "mid", "loud">> /\ isSpeaking /\ runStarts = 1

\* C6: from Idle with a zero frame count, consecutive frames above the speech
\* threshold emit no realSpeechStart on the first and second frame, exactly
\* one on the third, and no further one afterwards.
C6_ThreeLoudFrames ==
    (run # <<>> /\ \A i \in 1..Min(Len(run), REQUIRED_NOISE_FRAMES) :
                        run[i] = "loud")
    => IF Len(run) < REQUIRED_NOISE_FRAMES
       THEN runStarts = 0 /\ ~isSpeaking
       ELSE runStarts = 1 /\ isSpeaking

C6_Witness ==
    run = <<"loud", "loud", "loud", "loud">> /\ runStarts = 1 /\ isSpeaking

\* C7: when all frames after a realSpeechStart are at or below the noise
\* floor, the countdown started by the first of them is never restarted, it
\* ends in one realSpeechEnd no earlier than SILENCE_THRESHOLD after that
\* frame, and later such frames start no further countdown.
C7_SilenceEndsSpeechOnce ==
    /\ [](quiet.s = "low" =>
            /\ isSpeaking
            /\ silenceTimer # NULL
            /\ DOMAIN pending = {silenceTimer}
            /\ pending[silenceTimer] = Max(0, SILENCE_THRESHOLD - quiet.age))
    /\ [](quiet.s = "ended" =>
            /\ ~isSpeaking
            /\ unmatched = 0
            /\ emitted[Len(emitted)] = "realSpeechEnd"
            /\ quiet.age >= SILENCE_THRESHOLD
            /\ silenceTimer = NULL
            /\ DOMAIN pending = {})
    /\ (quiet.s = "low") ~> (quiet.s # "low")

C7_Witness ==
    quiet.s = "ended" /\ quiet.age >= SILENCE_THRESHOLD /\ ~isSpeaking

\* C8 as claimed: while speaking with a silence timer pending, any frame
\* above the noise floor cancels the timer.
\* (Only the processing of a frame above the noise floor increments
\* consecutiveNoiseFrames.)
C8_AnyNoiseFrameCancels ==
    [][(/\ isSpeaking
        /\ silenceTimer # NULL
        /\ consecutiveNoiseFrames' = consecutiveNoiseFrames + 1
        /\ lastClass' \in {"mid", "loud"})
       => (silenceTimer' = NULL /\ silenceTimer \notin DOMAIN pending')]_vars

\* C8 as amended: while speaking with a silence timer pending, a frame above
\* the speech threshold that is at least the REQUIRED_NOISE_FRAMES-th
\* consecutive frame above the noise floor cancels the timer, and the
\* cancelled countdown is no longer scheduled, so it emits no realSpeechEnd;
\* any other frame above the noise floor leaves the timer pending.
C8_ConfirmedFrameCancels ==
    /\ [][(/\ isSpeaking
            /\ silenceTimer # NULL
            /\ consecutiveNoiseFrames' = consecutiveNoiseFrames + 1)
           => IF lastClass' = "loud"
                 /\ consecutiveNoiseFrames' >= REQUIRED_NOISE_FRAMES
              THEN /\ cancelled'
                   /\ silenceTimer' = NULL
                   /\ silenceTimer \notin DOMAIN pending'
                   /\ unmatched' = unmatched
              ELSE /\ ~cancelled'
                   /\ silenceTimer' = silenceTimer
                   /\ pending' = pending]_vars
    /\ [](cancelled => (isSpeaking /\ silenceTimer = NULL
                        /\ DOMAIN pending = {}))

C8_Witness ==
    cancelled /\ isSpeaking /\ silenceTimer = NULL /\ DOMAIN pending = {}

\* C9: a chunk of zero samples leaves isSpeaking, consecutiveNoiseFrames and
\* silenceTimer unchanged.
C9_EmptyChunkNoUpdate ==
    [][(\E userId \in Sources : Data(userId, <<>>))
       => UNCHANGED <<isSpeaking, consecutiveNoiseFrames, silenceTimer>>]_vars

\* C10: isCurrentlySpeaking() is true exactly when one realSpeechStart has
\* not yet been followed by its realSpeechEnd: the starts emitted minus the
\* ends emitted are 1 when it is true and 0 when it is false.
C10_SpeakingIffUnmatchedStart ==
    IF isCurrentlySpeaking THEN unmatched = 1 ELSE unmatched = 0

C10_Witness ==
    /\ isCurrentlySpeaking
    /\ unmatched = 1
    /\ Len(emitted) >= 3
    /\ emitted[Len(emitted)] = "realSpeechStart"

Magnitude(x) == IF x < 0 THEN 0 - x ELSE x

SumOver(frame, F(_)) ==
    LET RECURSIVE Upto(_)
        Upto(k) == IF k = 0 THEN 0 ELSE F(frame[k]) + Upto(k - 1)
    IN  Upto(Len(frame))

TotalMagnitude(frame) == SumOver(frame, Magnitude)

Squared(x) == x * x

Energy(frame) == SumOver(frame, Squared)

Comparable == /\ measured.done
              /\ Len(measured.a) = Len(measured.b)
              /\ Len(measured.a) > 0

C12_TimerOnlyWhileSpeaking ==
    silenceTimer # NULL => isSpeaking

C12_Witness ==
    /\ silenceTimer # NULL
    /\ isSpeaking
    /\ silenceTimer \in DOMAIN pending
    /\ pending[silenceTimer] = 0
    /\ Len(emitted) >= 3

\* C13: at most one timeout is outstanding, silenceTimer refers to it exactly
\* when one is, and a step that schedules a timeout starts from a state with
\* none outstanding.
C13_OneTimeoutAndItsHandle ==
    /\ [](/\ Cardinality(DOMAIN pending) <= 1
          /\ (silenceTimer = NULL) <=> (DOMAIN pending = {})
          /\ silenceTimer # NULL => DOMAIN pending = {silenceTimer})
    /\ [][(DOMAIN pending' \ DOMAIN pending # {})
           => (DOMAIN pending = {} /\ silenceTimer = NULL)]_vars

C13_Witness ==
    /\ silenceTimer # NULL
    /\ DOMAIN pending = {silenceTimer}
    /\ pending[silenceTimer] < SILENCE_THRESHOLD
    /\ lastClass = "low"
    /\ Len(emitted) >= 3

\* C14: isSpeaking goes from true to false only in the step in which a
\* silence timeout expires; a step that processes a frame (the only steps
\* that set lastClass or raise consecutiveNoiseFrames) never does it.
C14_SpeakingEndsOnlyOnExpiry ==
    [][(isSpeaking /\ ~isSpeaking')
       => (/\ \E id \in DOMAIN pending : pending[id] = 0 /\ TimerFire(id)
           /\ lastClass' = lastClass
           /\ consecutiveNoiseFrames' = 0)]_vars

C14_Witness ==
    /\ ~isSpeaking
    /\ unmatched = 0
    /\ Len(emitted) > 0
    /\ emitted[Len(emitted)] = "realSpeechEnd"
    /\ lastClass = "low"

C17_StartNeedsRunOfNoiseFrames ==
    /\ [][unmatched' > unmatched
          => (/\ lastClass' = "loud"
              /\ noiseRun' = Min(MaxNoiseFrames, noiseRun + 1)
              /\ noiseRun' >= REQUIRED_NOISE_FRAMES)]_vars
    /\ [](Min(consecutiveNoiseFrames, MaxNoiseFrames) <= noiseRun)

C17_Witness ==
    /\ isSpeaking
    /\ lastClass = "loud"
    /\ emitted[Len(emitted)] = "realSpeechStart"
    /\ Len(emitted) >= 3
    /\ noiseRun > consecutiveNoiseFrames
    /\ consecutiveNoiseFrames = REQUIRED_NOISE_FRAMES

\* C18 as claimed: consecutiveNoiseFrames is the length of the current
\* unbroken run of frames above the noise floor.
C18_CountIsRunLength ==
    consecutiveNoiseFrames = noiseRun

\* C18 as amended: consecutiveNoiseFrames is the number of frames processed
\* since the most recent frame that was not above the noise floor or the
\* most recent realSpeechEnd, whichever came later; it never exceeds the
\* length of the current unbroken run of frames above the noise floor.
C18_CountSinceLowFrameOrEnd ==
    /\ consecutiveNoiseFrames = sinceReset
    /\ consecutiveNoiseFrames <= noiseRun

C18_Witness ==
    /\ consecutiveNoiseFrames > 0
    /\ consecutiveNoiseFrames < noiseRun
    /\ consecutiveNoiseFrames = sinceReset
    /\ ~isSpeaking

\* C19: a frame above the noise floor that does not meet the confirmation
\* condition adds one to consecutiveNoiseFrames and changes nothing else:
\* isSpeaking, silenceTimer and the outstanding timeout stay as they are and
\* no event is emitted.
C19_UnconfirmedNoiseFrameOnlyCounts ==
    [][(/\ consecutiveNoiseFrames' = consecutiveNoiseFrames + 1
        /\ ~(lastClass' = "loud"
             /\ consecutiveNoiseFrames' >= REQUIRED_NOISE_FRAMES))
       => (/\ lastClass' \in {"mid", "loud"}
           /\ UNCHANGED <<isSpeaking, silenceTimer, pending, emitVars>>
           /\ ~cancelled')]_vars

C19_Witness ==
    /\ isSpeaking
    /\ silenceTimer # NULL
    /\ lastClass = "mid"
    /\ consecutiveNoiseFrames >= REQUIRED_NOISE_FRAMES
    /\ pending[silenceTimer] < SILENCE_THRESHOLD

=============================================================================
